---------------------------- MODULE Spec2Model ----------------------------
(***************************************************************************)
(* REDItools3: the analysis engine (reditools.py), its quality-control     *)
(* chain (rtchecks.py) and the position-list helper (utils.py).            *)
(*                                                                         *)
(* The engine is configured through its setters and then scanned with      *)
(* analyze().  A Python exception is modelled by its class name: a setter  *)
(* or a call that raises records the name in call.raised and a scan that   *)
(* raises ends in pc = "aborted".                                          *)
(***************************************************************************)
EXTENDS Integers, Sequences, FiniteSets, TLC

(***************************************************************************)
(* Bounds of the model.                                                    *)
(***************************************************************************)
MaxPos == 2
MaxBatches == 2
MaxReadLen == 2
MaxThreshold == 1
MaxRegions == 1
MaxRegionEnd == 1
MaxDepth == 2
MaxListLen == 2
MaxListEnd == 3
MaxResultDepth == 3
MaxEdits == 2

Contigs == {"chr1", "chr2"}
Positions == 0..MaxPos
Bases == {"A", "G"}
RefBase == "A"

(***************************************************************************)
(* Python values.  A position list attribute holds False, [] or {} before  *)
(* it is configured and a dict (contig -> set of 0-based positions) after. *)
(***************************************************************************)
NoMap == [c \in {} |-> {}]
PyFalse == [tag |-> "bool", map |-> NoMap]
PyList == [tag |-> "list", map |-> NoMap]
PyDict(m) == [tag |-> "dict", map |-> m]
Truthy(v) == v.tag = "dict" /\ DOMAIN v.map # {}
\* dict.get(contig, [])
DictGet(v, contig) == IF contig \in DOMAIN v.map THEN v.map[contig] ELSE {}

NoError == "none"

(***************************************************************************)
(* utils.enumerate_positions: region records (contig, start[, end]) with   *)
(* 1-based start.  len is len(reg); end is read only when len >= 3.        *)
(***************************************************************************)
RegionRecords ==
  [contig : Contigs, start : 1..MaxRegionEnd, len : {2}, end : {0}]
  \cup { r \in [contig : Contigs, start : 1..MaxRegionEnd, len : {3},
                end : 1..MaxRegionEnd] : r.end >= r.start }

RECURSIVE SeqsUpTo(_, _)
SeqsUpTo(S, n) ==
  IF n = 0 THEN {<<>>}
  ELSE SeqsUpTo(S, n - 1)
       \cup { Append(s, x) : s \in { t \in SeqsUpTo(S, n - 1) : Len(t) = n - 1 },
                             x \in S }

RegionLists == SeqsUpTo(RegionRecords, MaxRegions)

\* the region lists handed to enumerate_positions on its own: records with
\* any start and end, an end below the start included
ListRecords ==
  [contig : Contigs, start : 1..MaxListEnd, len : {2}, end : {0}]
  \cup [contig : Contigs, start : 1..MaxListEnd, len : {3}, end : 1..MaxListEnd]
PositionLists == SeqsUpTo(ListRecords, MaxListLen)

\* faulty variant: the end of a record is taken as exclusive
RegionRangeExclusive(reg) ==
  LET start == reg.start - 1
      end == IF reg.len < 3 THEN start + 1 ELSE reg.end - 1
  IN  start..(end - 1)
\* range(start, end) of one record, start and end as the code computes them
RegionRange(reg) ==
  LET start == reg.start - 1
      end == IF reg.len < 3 THEN start + 1 ELSE reg.end
  IN  start..(end - 1)

RECURSIVE enumerate_positions(_)
enumerate_positions(regions) ==
  IF regions = <<>> THEN NoMap
  ELSE LET n == Len(regions)
           reg == regions[n]
           positions == enumerate_positions(SubSeq(regions, 1, n - 1))
           old == IF reg.contig \in DOMAIN positions
                    THEN positions[reg.contig] ELSE {}
       IN  [c \in DOMAIN positions \cup {reg.contig} |->
              IF c = reg.contig THEN old \cup RegionRange(reg)
              ELSE positions[c]]

(***************************************************************************)
(* State.                                                                  *)
(***************************************************************************)
VARIABLES
  engine,             \* the REDItools / REDItoolsDNA object and its RTChecks
  call,               \* the last call on the engine and what it raised
  requested_exclude,  \* history: the region list last given to exclude_positions
  pc,                 \* "config", "loop" (inside analyze), "done", "aborted"
  region,             \* analyze's region argument
  contig,             \* analyze's local contig
  position,           \* analyze's local position
  reads,              \* analyze's local reads: the pending batch, or None
  pulled,             \* batches produced so far by the read source
  nucleotides,        \* the CompiledReads window: position -> CompiledPosition
  total,              \* analyze's local total
  out,                \* the records yielded so far
  log,                \* what the last loop iteration did with its position
  ingested,           \* history: start and size of each batch given to add_reads
  other               \* a second engine instance and its scan, while the
                      \* variables above hold the instance that is running

vars == <<engine, call, requested_exclude, pc, region, contig, position,
          reads, pulled, nucleotides, total, out, log, ingested, other>>

scanvars == <<pc, region, contig, position, reads, pulled, nucleotides,
              total, out, log, ingested>>

(***************************************************************************)
(* RTChecks: the chain is a Python set of bound methods, which hash and    *)
(* compare by (object, function); a method is modelled by its name.        *)
(***************************************************************************)
CheckNames == {"check_splice_positions", "check_poly_positions",
               "check_column_min_length", "check_column_quality",
               "check_column_edit_frequency", "check_column_min_edits"}

RTChecksInit == {}

RTAdd(check_list, function) == check_list \cup {function}

\* faulty variant: a discard that removes nothing
RTDiscardNothing(check_list, function) == check_list
RTDiscard(check_list, function) == check_list \ {function}

(***************************************************************************)
(* REDItools.__init__ and REDItoolsDNA.__init__.  The two lambdas the DNA  *)
(* variant stores (get_position_strand, _get_strand) are attributes that   *)
(* no code of the engine reads; they are kept as the field dna_lambdas.    *)
(***************************************************************************)
DefaultMinColumnLength == 1
DefaultMinEdits == 0
DefaultMinEditsPerNucleotide == 0
DefaultMinReadQuality == 0
DefaultStrand == 0
\* strand_confidence_threshold = 0.5, kept in percent
DefaultStrandConfidence == 50

\* Object identity.  Each engine is its own object (id); __init__ gives it
\* an RTChecks object of its own, whose __init__ creates its check_list
\* set, and each call of analyze creates its CompiledReads.  Objects are
\* named by the engine that created them.
\* faulty variant: one check_list set for every RTChecks object
NewRTChecksShared(id) == 0
NewRTChecks(id) == id
NewCompiledReads(id) == id

EngineInit(kind) ==
  [ kind |-> kind,
    id |-> 1,
    dna_lambdas |-> (kind = "DNA"),
    _min_column_length |-> DefaultMinColumnLength,
    _min_edits |-> DefaultMinEdits,
    _min_edits_per_nucleotide |-> DefaultMinEditsPerNucleotide,
    strand |-> DefaultStrand,
    usestrand_correction |-> FALSE,
    strand_confidence_threshold |-> DefaultStrandConfidence,
    check_list |-> RTChecksInit,
    _min_read_quality |-> DefaultMinReadQuality,
    _target_positions |-> PyFalse,
    _exclude_positions |-> PyDict(NoMap),
    _splice_positions |-> PyList,
    _poly_positions |-> PyList ]

\* the engine constructed second
EngineInitSecond(kind) == [EngineInit(kind) EXCEPT !.id = 2]

Kinds == {"RNA", "DNA"}

Returned(op) == [op |-> op, raised |-> NoError]
Raised(op, error) == [op |-> op, raised |-> error]


(***************************************************************************)
(* The position-list setters.  Each operator gives the engine after the    *)
(* call; the matching ...Error operator gives the exception it raises.     *)
(***************************************************************************)
\* poly_positions: line 150 names self._reqc, an attribute that does not
\* exist, after line 149 has stored the enumerated positions.
poly_positions_setter(e, regions) ==
  IF regions # <<>>
    THEN [e EXCEPT !._poly_positions = PyDict(enumerate_positions(regions))]
    ELSE [e EXCEPT !._poly_positions = PyList,
                   !.check_list = RTDiscard(@, "check_poly_positions")]
poly_positions_error(regions) ==
  IF regions # <<>> THEN "AttributeError" ELSE NoError

splice_positions_setter(e, regions) ==
  IF regions # <<>>
    THEN [e EXCEPT !._splice_positions = PyDict(enumerate_positions(regions)),
                   !.check_list = RTAdd(@, "check_splice_positions")]
    ELSE [e EXCEPT !._splice_positions = PyList,
                   !.check_list = RTDiscard(@, "check_splice_positions")]

target_positions_setter(e, regions) ==
  IF regions # <<>>
    THEN [e EXCEPT !._target_positions = PyDict(enumerate_positions(regions))]
    ELSE [e EXCEPT !._target_positions = PyFalse]

\* exclude_positions: the setter assigns to the property it implements, so
\* it calls itself with the enumerated dict.  Iterating that dict gives the
\* contig names, and int(name[1]) raises ValueError; an empty dict recurses
\* until RecursionError.  self._exclude_positions is never assigned.
exclude_positions_setter(e, regions) == e
exclude_positions_error(regions) ==
  IF regions # <<>> THEN "ValueError" ELSE "RecursionError"

(***************************************************************************)
(* The threshold setters.                                                  *)
(***************************************************************************)
min_read_quality_setter(e, threshold) ==
  LET e1 == [e EXCEPT !._min_read_quality = threshold]
  IN  IF e1._min_read_quality > 0
        THEN [e1 EXCEPT !.check_list = RTAdd(@, "check_column_quality")]
        ELSE [e1 EXCEPT !.check_list = RTDiscard(@, "check_column_quality")]

min_column_length_setter(e, threshold) ==
  LET e1 == [e EXCEPT !._min_column_length = threshold]
  IN  IF threshold > 1
        THEN [e1 EXCEPT !.check_list = RTAdd(@, "check_column_min_length")]
        ELSE [e1 EXCEPT !.check_list = RTDiscard(@, "check_column_min_length")]

min_edits_setter(e, threshold) ==
  LET e1 == [e EXCEPT !._min_edits = threshold]
  IN  IF threshold > 0
        THEN [e1 EXCEPT !.check_list = RTAdd(@, "check_column_edit_frequency")]
        ELSE [e1 EXCEPT !.check_list = RTDiscard(@, "check_column_edit_frequency")]

min_edits_per_nucleotide_setter(e, threshold) ==
  LET e1 == [e EXCEPT !._min_edits_per_nucleotide = threshold]
  IN  IF threshold > 0
        THEN [e1 EXCEPT !.check_list = RTAdd(@, "check_column_min_edits")]
        ELSE [e1 EXCEPT !.check_list = RTDiscard(@, "check_column_min_edits")]

(***************************************************************************)
(* The strand parameters.  strand, usestrand_correction and                *)
(* strand_confidence_threshold are plain attributes of both variants;      *)
(* REDItoolsDNA adds only the method set_strand, which raises.             *)
(***************************************************************************)
StrandModes == {0, 1, 2}
Confidences == {50, 100}

use_strand_correction(e) == [e EXCEPT !.usestrand_correction = TRUE]
assign_strand(e, strand) == [e EXCEPT !.strand = strand]
assign_strand_confidence_threshold(e, threshold) ==
  [e EXCEPT !.strand_confidence_threshold = threshold]
\* REDItoolsDNA.set_strand; REDItools has no such method
set_strand(e, strand) == e
set_strand_error(e) == IF e.kind = "DNA" THEN "ValueError" ELSE "AttributeError"

(***************************************************************************)
(* Configuration actions: one call on the engine before a scan.            *)
(***************************************************************************)
Thresholds == 0..MaxThreshold
\* min_column_length is inactive up to 1
ColumnLengths == 0..(MaxThreshold + 1)

\* what a change of the running engine's chain does to the other instance:
\* nothing, unless both hold the same check_list object
ChainSeenBy(o, e) ==
  IF NewRTChecks(o.engine.id) = NewRTChecks(e.id)
    THEN [o EXCEPT !.engine.check_list = e.check_list]
    ELSE o
\* likewise for the window of the running scan
WindowSeenBy(o, e, window) ==
  IF NewCompiledReads(o.engine.id) = NewCompiledReads(e.id)
    THEN [o EXCEPT !.nucleotides = window]
    ELSE o

Configure(e, c) ==
  /\ pc = "config"
  /\ engine' = e
  /\ call' = c
  /\ other' = ChainSeenBy(other, e)
  /\ UNCHANGED <<requested_exclude, scanvars>>

SetPolyPositions ==
  \E regions \in RegionLists :
    Configure(poly_positions_setter(engine, regions),
              Raised("poly_positions", poly_positions_error(regions)))

SetSplicePositions ==
  \E regions \in RegionLists :
    Configure(splice_positions_setter(engine, regions),
              Returned("splice_positions"))

SetTargetPositions ==
  \E regions \in RegionLists :
    Configure(target_positions_setter(engine, regions),
              Returned("target_positions"))

SetExcludePositions ==
  \E regions \in RegionLists :
    /\ pc = "config"
    /\ engine' = exclude_positions_setter(engine, regions)
    /\ call' = Raised("exclude_positions", exclude_positions_error(regions))
    /\ requested_exclude' = PyDict(enumerate_positions(regions))
    /\ UNCHANGED <<scanvars, other>>

SetMinReadQuality ==
  \E threshold \in Thresholds :
    Configure(min_read_quality_setter(engine, threshold),
              Returned("min_read_quality"))

SetMinColumnLength ==
  \E threshold \in ColumnLengths :
    Configure(min_column_length_setter(engine, threshold),
              Returned("min_column_length"))

SetMinEdits ==
  \E threshold \in Thresholds :
    Configure(min_edits_setter(engine, threshold), Returned("min_edits"))

SetMinEditsPerNucleotide ==
  \E threshold \in Thresholds :
    Configure(min_edits_per_nucleotide_setter(engine, threshold),
              Returned("min_edits_per_nucleotide"))

UseStrandCorrection ==
  Configure(use_strand_correction(engine), Returned("use_strand_correction"))

AssignStrand ==
  \E strand \in StrandModes :
    Configure(assign_strand(engine, strand), Returned("strand"))

AssignStrandConfidence ==
  \E threshold \in Confidences :
    Configure(assign_strand_confidence_threshold(engine, threshold),
              Returned("strand_confidence_threshold"))

SetStrand ==
  \E strand \in StrandModes :
    Configure(set_strand(engine, strand),
              Raised("set_strand", set_strand_error(engine)))

(***************************************************************************)
(* The read source (alignment_manager).  fetch_by_position yields batches  *)
(* of reads that share reference_start, in increasing start order; while   *)
(* a batch is pending, .position and .contig are that batch's.  A read is  *)
(* its aligned length, its base call, the strand the accumulator infers    *)
(* for it under a stranded mode, and its base quality.                     *)
(***************************************************************************)
\* self.min_base_quality, handed to CompiledReads
MinBaseQuality == 30
Strands == {"+", "-"}
Qualities == {20, 40}
Reads == [len : 1..MaxReadLen, base : Bases, strand : Strands, qual : Qualities]

\* the batches offered: one edited read (G) of any length and strand that
\* passes the base-quality threshold, one of length 1 that does not, one
\* unedited read (the reference base) of length 1, or two edited reads of
\* length 1 that pass the threshold, on the same strand or on both
SingleReads ==
  { r \in Reads :
      \/ r.base = "G" /\ r.qual >= MinBaseQuality
      \/ r.len = 1 /\ r.strand = "+" /\ (r.base = "G" \/ r.qual >= MinBaseQuality) }
PairedReads ==
  { r \in SingleReads : r.base = "G" /\ r.len = 1 /\ r.qual >= MinBaseQuality }
\* a pair is offered in one order of its strands
ReadSeqs ==
  { <<r>> : r \in SingleReads }
  \cup { pair \in PairedReads \X PairedReads :
           pair[1].strand = "+" \/ pair[2].strand = "-" }

\* a program with two engines gives each a source of single forward reads
ForwardSeqs == { <<r>> : r \in { q \in SingleReads : q.strand = "+" } }
Offered == IF other.engine.id = 0 THEN ReadSeqs ELSE ForwardSeqs

None == [none |-> TRUE, contig |-> "", start |-> 0, reads |-> <<>>]
Batch(c, start, rs) == [none |-> FALSE, contig |-> c, start |-> start, reads |-> rs]

\* the batches the source may produce after a batch that started at `after`
\* (-1 before the first), or None when it is exhausted; n is the number of
\* batches the sources of the program have produced so far, MaxBatches
\* bounds it
NextBatches(c, after, n) ==
  {None} \cup
  IF n < MaxBatches
    THEN { Batch(c, st, rs) : st \in { p \in Positions : p > after }, rs \in Offered }
    ELSE {}

\* next(read_iter, None) on line 342: the source moves on to its next batch
\* faulty variant: the pending batch is ingested but the source is not advanced
SourceStuck(c, batch, n) == {batch}
SourceNext(c, batch, n) == NextBatches(c, batch.start, n)

\* faulty variant: the source is pulled in every iteration
PullAlways(ingest, batch, n) == SourceNext(batch.contig, batch, n)
\* lines 338-342: the next batch is pulled only when the pending one was
\* ingested; otherwise reads stays as it is
Pull(ingest, batch, n) ==
  IF ingest THEN SourceNext(batch.contig, batch, n) ELSE {batch}

(***************************************************************************)
(* CompiledReads and CompiledPosition (reditools.compiled_reads).          *)
(***************************************************************************)
NoBases == [none |-> TRUE, ref |-> "", reads |-> <<>>]
Empty == [p \in {} |-> NoBases]

\* the strand tallied for a read: unstranded mode 0 tallies the marker '*'
TalliedStrand(mode, read) == IF mode = 0 THEN "*" ELSE read.strand

Entry(mode, read) ==
  [base |-> read.base, strand |-> TalliedStrand(mode, read), qual |-> read.qual]

Covers(start, read, p) ==
  /\ p >= start
  /\ p < start + read.len
  /\ read.qual >= MinBaseQuality

AddRead(window, mode, start, read) ==
  LET touched == { p \in start..(start + read.len - 1) : Covers(start, read, p) }
  IN  [p \in DOMAIN window \cup touched |->
         IF p \in touched
           THEN IF p \in DOMAIN window
                  THEN [window[p] EXCEPT !.reads = Append(@, Entry(mode, read))]
                  ELSE [none |-> FALSE, ref |-> RefBase,
                        reads |-> <<Entry(mode, read)>>]
           ELSE window[p]]

RECURSIVE AddReadsFrom(_, _, _, _, _)
AddReadsFrom(window, mode, start, rs, i) ==
  IF i > Len(rs) THEN window
  ELSE AddReadsFrom(AddRead(window, mode, start, rs[i]), mode, start, rs, i + 1)

add_reads(window, mode, batch) ==
  AddReadsFrom(window, mode, batch.start, batch.reads, 1)

pop_value(window, p) == IF p \in DOMAIN window THEN window[p] ELSE NoBases
pop_rest(window, p) == [q \in DOMAIN window \ {p} |-> window[q]]
is_empty(window) == DOMAIN window = {}

Count(bases, strand) ==
  Cardinality({ i \in 1..Len(bases.reads) : bases.reads[i].strand = strand })

\* the consensus strand, when its share of the tally reaches the threshold
get_strand(bases, threshold) ==
  LET plus == Count(bases, "+")
      minus == Count(bases, "-")
      n == Len(bases.reads)
  IN  IF plus = minus THEN "*"
      ELSE IF plus > minus
        THEN (IF plus * 100 >= threshold * n THEN "+" ELSE "*")
        ELSE (IF minus * 100 >= threshold * n THEN "-" ELSE "*")

filter_bystrand(bases, strand) ==
  [bases EXCEPT !.reads = SelectSeq(@, LAMBDA r : r.strand = strand)]

Comp(base) ==
  CASE base = "A" -> "T" [] base = "T" -> "A"
    [] base = "C" -> "G" [] base = "G" -> "C" [] OTHER -> base

complement(bases) ==
  [ none |-> bases.none,
    ref |-> Comp(bases.ref),
    reads |-> [i \in 1..Len(bases.reads) |->
                 [bases.reads[i] EXCEPT !.base = Comp(bases.reads[i].base)]] ]

(***************************************************************************)
(* CompiledPosition as the checks and the result record read it.           *)
(***************************************************************************)
Nucleotides == {"A", "C", "G", "T"}
Depth(bases) == Len(bases.reads)
BaseCount(bases, base) ==
  Cardinality({ i \in 1..Len(bases.reads) : bases.reads[i].base = base })
RefCount(bases) == BaseCount(bases, bases.ref)
RECURSIVE SumQual(_, _)
SumQual(rs, i) == IF i > Len(rs) THEN 0 ELSE rs[i].qual + SumQual(rs, i + 1)
\* the non-reference nucleotides seen at the position
get_variants(bases) ==
  SelectSeq(<<"A", "C", "G", "T">>,
            LAMBDA b : b # bases.ref /\ BaseCount(bases, b) > 0)
\* the edit counts of the non-reference nucleotides
getmin_edits(bases) == { BaseCount(bases, b) : b \in Nucleotides \ {bases.ref} }

(***************************************************************************)
(* The quality checks of RTChecks, called as the method signature says:    *)
(* (rtools, bases, contig, position).  The result is "True", "False" or    *)
(* the exception raised.                                                   *)
(***************************************************************************)
\* line 60 looks the literal string 'contig' up, not the contig
check_splice_positions(rtools, bases, c, p) ==
  IF rtools._splice_positions.tag # "dict" THEN "AttributeError"
  ELSE IF p \in DictGet(rtools._splice_positions, "contig") THEN "False"
  ELSE "True"

\* line 83 reads rtools.omopolymeric_positions, which the engine does not have
check_poly_positions(rtools, bases, c, p) == "AttributeError"

\* lines 108 and 136 log through self._log, which RTChecks does not have
check_column_min_length(rtools, bases, c, p) ==
  IF Depth(bases) < rtools._min_column_length THEN "AttributeError" ELSE "True"

check_column_quality(rtools, bases, c, p) ==
  LET below == IF Depth(bases) > 0
                 THEN SumQual(bases.reads, 1) < rtools._min_read_quality * Depth(bases)
                 ELSE 0 < rtools._min_read_quality
  IN  IF below THEN "AttributeError" ELSE "True"

check_column_edit_frequency(rtools, bases, c, p) ==
  IF Depth(bases) - RefCount(bases) < rtools._min_edits THEN "False" ELSE "True"

\* faulty variant: a nucleotide without edits is rejected too
check_column_min_edits_of_all(rtools, bases, c, p) ==
  IF \E n \in getmin_edits(bases) : n < rtools._min_edits_per_nucleotide
    THEN "False" ELSE "True"
check_column_min_edits(rtools, bases, c, p) ==
  IF \E n \in getmin_edits(bases) : 0 < n /\ n < rtools._min_edits_per_nucleotide
    THEN "False" ELSE "True"

ApplyCheck(function, rtools, bases, c, p) ==
  CASE function = "check_splice_positions" -> check_splice_positions(rtools, bases, c, p)
    [] function = "check_poly_positions" -> check_poly_positions(rtools, bases, c, p)
    [] function = "check_column_min_length" -> check_column_min_length(rtools, bases, c, p)
    [] function = "check_column_quality" -> check_column_quality(rtools, bases, c, p)
    [] function = "check_column_edit_frequency" ->
         check_column_edit_frequency(rtools, bases, c, p)
    [] OTHER -> check_column_min_edits(rtools, bases, c, p)

(***************************************************************************)
(* utils.check_list as RTChecks.check calls it: check_list(self.check_list,*)
(* bases=bases).  Each member is then called as check(bases=bases), which  *)
(* lacks rtools, contig and position: the first member called raises       *)
(* TypeError.  With no member the loop body never runs.                    *)
(***************************************************************************)
\* faulty variant: an empty list of checks is reported as a failure
utils_check_list_rejects_empty(functions) ==
  IF functions = {} THEN "False" ELSE "TypeError"
utils_check_list(functions) ==
  IF functions = {} THEN "True" ELSE "TypeError"

RTChecks_check(check_list, rtools, bases, c, p) == utils_check_list(check_list)

(***************************************************************************)
(* RTResult.__init__ and REDItools._get_column.                            *)
(***************************************************************************)
RTResult(bases, strand, c, p) ==
  [ contig |-> c, position |-> p + 1, bases |-> bases, strand |-> strand,
    _variants |-> get_variants(bases) ]

\* A quotient of two integers is kept as its numerator and denominator;
\* Python's / raises ZeroDivisionError when the denominator is 0.
Quotient(num, den) ==
  [ raised |-> IF den = 0 THEN "ZeroDivisionError" ELSE NoError,
    num |-> num, den |-> den ]
Max(S) == CHOOSE x \in S : \A y \in S : y <= x

variants(rec) ==
  [i \in 1..Len(rec._variants) |-> rec.bases.ref \o rec._variants[i]]

mean_quality(rec) ==
  IF Depth(rec.bases) > 0
    THEN Quotient(SumQual(rec.bases.reads, 1), Depth(rec.bases))
    ELSE Quotient(0, 1)

\* faulty variant: the edits are divided by the depth
edit_ratio_of_depth(rec) ==
  LET max_edits == IF rec._variants # <<>>
                     THEN Max({ BaseCount(rec.bases, rec._variants[i]) :
                                  i \in 1..Len(rec._variants) })
                     ELSE 0
  IN  Quotient(max_edits, Depth(rec.bases))
edit_ratio(rec) ==
  LET max_edits == IF rec._variants # <<>>
                     THEN Max({ BaseCount(rec.bases, rec._variants[i]) :
                                  i \in 1..Len(rec._variants) })
                     ELSE 0
  IN  Quotient(max_edits, max_edits + RefCount(rec.bases))

depth(rec) == Depth(rec.bases)

\* region is None on entry: analyze replaces it by {}, a dict without
\* the attributes start, stop and contig
NoRegion == [given |-> FALSE, contig |-> "", start |-> 0, stop |-> 0]
\* start and stop are 0 when the region leaves them out (None)
Region(c, start, stop) == [given |-> TRUE, contig |-> c, start |-> start, stop |-> stop]

\* faulty variant: strand correction is never applied
_get_column_uncorrected(e, p, bases, reg) ==
  LET strand == get_strand(bases, e.strand_confidence_threshold)
      kept == bases
      shown == IF strand = "-" THEN complement(kept) ELSE kept
      past_start == p + 1 >= reg.start
      checked == IF past_start
                   THEN RTChecks_check(e.check_list, e, shown, reg.contig, p)
                   ELSE "True"
  IN  [ raised |-> IF ~reg.given THEN "AttributeError"
                   ELSE IF checked \in {"True", "False"} THEN NoError
                   ELSE checked,
        none |-> checked = "False",
        column |-> RTResult(shown, strand, reg.contig, p) ]
_get_column(e, p, bases, reg) ==
  LET strand == get_strand(bases, e.strand_confidence_threshold)
      kept == IF e.usestrand_correction THEN filter_bystrand(bases, strand) ELSE bases
      shown == IF strand = "-" THEN complement(kept) ELSE kept
      past_start == p + 1 >= reg.start
      checked == IF past_start
                   THEN RTChecks_check(e.check_list, e, shown, reg.contig, p)
                   ELSE "True"
  IN  [ raised |-> IF ~reg.given THEN "AttributeError"
                   ELSE IF checked \in {"True", "False"} THEN NoError
                   ELSE checked,
        none |-> checked = "False",
        column |-> RTResult(shown, strand, reg.contig, p) ]

(***************************************************************************)
(* REDItools.analyze.  Analyze is the call up to the loop; LoopExit and    *)
(* LoopIter are the while loop, one iteration per step (the generator      *)
(* resumed by its consumer and run to its next yield or continue).         *)
(***************************************************************************)
ScanContigs == {"chr1"}
RegionBounds == {0, MaxPos}
RegionArgs ==
  {NoRegion} \cup { Region(c, start, stop) : c \in ScanContigs,
                    start \in RegionBounds, stop \in RegionBounds }

\* faulty variant: the pointer stays where it is
NextPositionStays(p) == p
\* faulty variant: the pointer advances by two
NextPositionSkips(p) == p + 2
NextPosition(p) == p + 1
\* faulty variant: the pending batch is never taken
StartsNowhere(batch, p) == FALSE
StartsHere(batch, p) == ~batch.none /\ batch.start = p
PastStop(reg, p) == reg.stop # 0 /\ p >= reg.stop
Excluded(e, c, p) == p \in DictGet(e._exclude_positions, c)
\* faulty variant: the empty sentinel is not tested for
NoReadsIgnored(bases) == FALSE
\* bases is None, line 356
NoReads(bases) == bases.none
\* faulty variant: the allowlist is never consulted
NotTargetedIgnored(e, c, p) == FALSE
NotTargeted(e, c, p) ==
  Truthy(e._target_positions) /\ p \notin DictGet(e._target_positions, c)

StartScan(regs) ==
  /\ pc = "config"
  /\ \E reg \in regs, c \in ScanContigs :
    \E first \in NextBatches(c, -1, other.pulled) :
      /\ pc' = "loop"
      /\ region' = reg
      /\ reads' = first
      /\ pulled' = IF first.none THEN 0 ELSE 1
      /\ nucleotides' = Empty
      /\ total' = 0
      /\ out' = <<>>
      /\ ingested' = <<>>
      /\ log' = "fetching"
      /\ call' = Returned("analyze")
      /\ other' = WindowSeenBy(other, engine, Empty)
      /\ UNCHANGED <<engine, requested_exclude, contig, position>>

\* analyze(alignment_manager, region) with any region, or none
Analyze == StartScan(RegionArgs)
\* analyze(alignment_manager, region) with a region that names only a contig
AnalyzeContig == StartScan({ Region(c, 0, 0) : c \in ScanContigs })

LoopExit ==
  /\ pc = "loop"
  /\ reads.none
  /\ is_empty(nucleotides)
  /\ pc' = "done"
  /\ log' = "total reads"
  /\ UNCHANGED <<engine, call, requested_exclude, region, contig, position,
                 reads, pulled, nucleotides, total, out, ingested, other>>

LoopIter ==
  /\ pc = "loop"
  /\ ~reads.none \/ ~is_empty(nucleotides)
  /\ LET skip == is_empty(nucleotides)
         unbound == ~skip /\ contig = "unbound"
         p == IF skip THEN reads.start ELSE NextPosition(position)
         c == IF skip THEN reads.contig ELSE contig
         ingest == StartsHere(reads, p)
         error == IF unbound THEN "UnboundLocalError"
                  ELSE IF ~region.given THEN "AttributeError"
                  ELSE NoError
         stop == error = NoError /\ PastStop(region, p)
     \* the window after add_reads, the column popped from it and the record
     \* built from the column, each computed once
     IN  \E added \in { IF ingest THEN add_reads(nucleotides, engine.strand, reads)
                        ELSE nucleotides } :
         \E bases \in { pop_value(added, p) } :
         \E col \in { _get_column(engine, p, bases, region) } :
         \E outcome \in {
              IF error # NoError THEN "raised"
              ELSE IF stop THEN "break"
              ELSE IF Excluded(engine, c, p) THEN "Listed exclusion - skipping"
              ELSE IF NotTargeted(engine, c, p) THEN "Not listed for inclusion - skipping"
              ELSE IF NoReads(bases) THEN "No reads - skipping"
              ELSE IF col.raised # NoError THEN "raised"
              ELSE IF col.none THEN "Bad column - skipping"
              ELSE "Yielding output" } :
         \E nb \in Pull(ingest /\ outcome # "break" /\ error = NoError,
                        reads, pulled + other.pulled) :
           /\ position' = (IF unbound THEN position ELSE p)
           /\ contig' = c
           /\ log' = outcome
           /\ pc' = (IF outcome = "raised" THEN "aborted"
                     ELSE IF outcome = "break" THEN "done" ELSE "loop")
           /\ call' = (IF outcome # "raised" THEN call
                       ELSE IF error # NoError THEN Raised("analyze", error)
                       ELSE Raised("analyze", col.raised))
           /\ IF error # NoError \/ stop
                THEN UNCHANGED <<reads, pulled, nucleotides, total, ingested>>
                ELSE /\ reads' = nb
                     /\ ingested' =
                          (IF ingest
                             THEN Append(ingested, [start |-> reads.start,
                                                    size |-> Len(reads.reads)])
                             ELSE ingested)
                     /\ pulled' = (IF nb # reads /\ ~nb.none THEN pulled + 1
                                   ELSE pulled)
                     /\ nucleotides' = pop_rest(added, p)
                     /\ total' = (IF ingest THEN total + Len(reads.reads) ELSE total)
           /\ other' = WindowSeenBy(other, engine, nucleotides')
           /\ out' = (IF outcome = "Yielding output" THEN Append(out, col.column)
                      ELSE out)
           /\ UNCHANGED <<engine, requested_exclude, region>>

(***************************************************************************)
(* Direct calls on the RTChecks object of the engine.                      *)
(***************************************************************************)
CheckedPositions ==
  { [none |-> FALSE, ref |-> RefBase, reads |-> rs] :
      rs \in SeqsUpTo({ r \in [base : Bases, strand : {"*"}, qual : Qualities] :
                          r.qual >= MinBaseQuality }, MaxDepth) }

ChainCall(op, function, cl) ==
  /\ pc = "config"
  /\ engine' = [engine EXCEPT !.check_list = cl]
  /\ call' = [op |-> op, raised |-> NoError, function |-> function]
  /\ other' = ChainSeenBy(other, engine')
  /\ UNCHANGED <<requested_exclude, scanvars>>

ChainAdd ==
  \E function \in CheckNames :
    ChainCall("add", function, RTAdd(engine.check_list, function))

ChainDiscard ==
  \E function \in CheckNames :
    ChainCall("discard", function, RTDiscard(engine.check_list, function))

ChainCheck ==
  \E bases \in CheckedPositions, c \in Contigs, p \in Positions :
    LET res == RTChecks_check(engine.check_list, engine, bases, c, p)
    IN  /\ pc = "config"
        /\ call' = [ op |-> "check",
                     raised |-> IF res \in {"True", "False"} THEN NoError ELSE res,
                     result |-> res,
                     bases |-> bases, contig |-> c, position |-> p ]
        /\ UNCHANGED <<engine, requested_exclude, scanvars, other>>

\* one check called the way its signature asks: (rtools, bases, contig,
\* position), on a position of any depth, none included
CallPredicate ==
  \E function \in CheckNames, bases \in CheckedPositions,
     c \in ScanContigs, p \in Positions :
    LET res == ApplyCheck(function, engine, bases, c, p)
    IN  /\ pc = "config"
        /\ call' = [ op |-> "predicate", function |-> function,
                     raised |-> IF res \in {"True", "False"} THEN NoError ELSE res,
                     result |-> res,
                     bases |-> bases, contig |-> c, position |-> p ]
        /\ UNCHANGED <<engine, requested_exclude, scanvars, other>>

\* the two edit-count checks on engines whose edit thresholds were set, over
\* positions with up to two kinds of edit
EditChecks == {"check_column_edit_frequency", "check_column_min_edits"}
EditThresholds == 0..MaxEdits
EditEngines ==
  { min_edits_per_nucleotide_setter(min_edits_setter(EngineInit("RNA"), total_edits),
                                    per_nucleotide) :
      total_edits \in EditThresholds, per_nucleotide \in EditThresholds }
EditPositions ==
  { [none |-> FALSE, ref |-> RefBase, reads |-> rs] :
      rs \in SeqsUpTo([base : {"A", "C", "G"}, strand : {"*"}, qual : {40}],
                      MaxResultDepth) }
EditCheckCalls ==
  { [op |-> "pending", function |-> function, raised |-> NoError,
     result |-> "none", bases |-> bases, contig |-> "chr1", position |-> 0] :
      function \in EditChecks, bases \in EditPositions }

\* the pending call of a check is made
CallPending ==
  LET res == ApplyCheck(call.function, engine, call.bases, call.contig,
                        call.position)
  IN  /\ pc = "config"
      /\ call.op = "pending"
      /\ call' = [call EXCEPT
                    !.op = "predicate",
                    !.raised = IF res \in {"True", "False"} THEN NoError ELSE res,
                    !.result = res]
      /\ UNCHANGED <<engine, requested_exclude, scanvars, other>>

(***************************************************************************)
(* Direct calls of the helpers.                                            *)
(***************************************************************************)
\* a call that is about to be made holds its arguments under op "pending"
EnumeratePositionsCalls ==
  { [op |-> "pending", raised |-> NoError, regions |-> regions,
     result |-> PyDict(NoMap)] : regions \in PositionLists }

EnumeratePositions ==
  /\ pc = "config"
  /\ call.op = "pending"
  /\ call' = [call EXCEPT !.op = "enumerate_positions",
                         !.result = PyDict(enumerate_positions(call.regions))]
  /\ UNCHANGED <<engine, requested_exclude, scanvars, other>>

\* the positions a result record is built over: up to MaxResultDepth reads
\* of any base and quality, none included
ResultPositions ==
  { [none |-> FALSE, ref |-> RefBase, reads |-> rs] :
      rs \in SeqsUpTo([base : {"A", "C", "G"}, strand : {"*"}, qual : Qualities],
                      MaxResultDepth) }

RTResultCalls ==
  { [op |-> "pending", raised |-> NoError,
     record |-> RTResult(bases, "*", "chr1", 0)] : bases \in ResultPositions }

\* the properties of a record are read
ReadResult ==
  /\ pc = "config"
  /\ call.op = "pending"
  /\ call' = [ op |-> "RTResult",
               raised |-> edit_ratio(call.record).raised,
               record |-> call.record,
               variants |-> variants(call.record),
               mean_quality |-> mean_quality(call.record),
               edit_ratio |-> edit_ratio(call.record),
               depth |-> depth(call.record) ]
  /\ UNCHANGED <<engine, requested_exclude, scanvars, other>>

(***************************************************************************)
(* Specifications.                                                         *)
(***************************************************************************)
\* an instance that has been constructed and not yet used
Fresh(e) ==
  [ engine |-> e, call |-> Returned("__init__"), pc |-> "config",
    region |-> NoRegion, contig |-> "unbound", position |-> 0, reads |-> None,
    pulled |-> 0, nucleotides |-> Empty, total |-> 0, out |-> <<>>,
    log |-> "none", ingested |-> <<>> ]
\* the instance that is running, as a record
Running ==
  [ engine |-> engine, call |-> call, pc |-> pc, region |-> region,
    contig |-> contig, position |-> position, reads |-> reads,
    pulled |-> pulled, nucleotides |-> nucleotides, total |-> total,
    out |-> out, log |-> log, ingested |-> ingested ]

\* the program holds control: between calls, or while the generator of
\* analyze is suspended (created and not yet resumed, at a yield, or ended)
AtRest ==
  \/ pc # "loop"
  \/ log \in {"fetching", "Yielding output"}

\* the other instance goes on and the running one waits: the interleaving
\* of two engines used by one program
SwitchEngine ==
  /\ AtRest
  /\ other' = Running
  /\ engine' = other.engine
  /\ call' = other.call
  /\ pc' = other.pc
  /\ region' = other.region
  /\ contig' = other.contig
  /\ position' = other.position
  /\ reads' = other.reads
  /\ pulled' = other.pulled
  /\ nucleotides' = other.nucleotides
  /\ total' = other.total
  /\ out' = other.out
  /\ log' = other.log
  /\ ingested' = other.ingested
  /\ UNCHANGED requested_exclude

\* a program with one engine has no second instance
Absent == [engine |-> [id |-> 0], pulled |-> 0]

InitAll(engines, calls, second) ==
  /\ engine \in engines
  /\ other = second
  /\ call \in calls
  /\ requested_exclude = PyDict(NoMap)
  /\ pc = "config"
  /\ region = NoRegion
  /\ contig = "unbound"
  /\ position = 0
  /\ reads = None
  /\ pulled = 0
  /\ nucleotides = Empty
  /\ total = 0
  /\ out = <<>>
  /\ log = "none"
  /\ ingested = <<>>

InitWith(engines, calls) == InitAll(engines, calls, Absent)

InitState(kinds, calls) ==
  InitWith({ EngineInit(kind) : kind \in kinds }, calls)

InitEngine(kinds) == InitState(kinds, {Returned("__init__")})

\* a fresh engine of either variant
Init == InitEngine(Kinds)
\* a fresh REDItools engine
InitRNA == InitEngine({"RNA"})

\* the threshold setters and the two position sets that switch a check
NextConfig ==
  \/ SetMinReadQuality
  \/ SetMinColumnLength
  \/ SetMinEdits
  \/ SetMinEditsPerNucleotide
  \/ SetSplicePositions
  \/ SetPolyPositions
SpecConfig == Init /\ [][NextConfig]_vars

\* the strand parameters, on an engine some thresholds of which are set
NextStrand ==
  \/ SetStrand
  \/ UseStrandCorrection
  \/ AssignStrand
  \/ AssignStrandConfidence
  \/ SetMinEdits
  \/ SetMinColumnLength
SpecStrand == Init /\ [][NextStrand]_vars

\* the RTChecks object used directly
NextChain ==
  \/ ChainAdd
  \/ ChainDiscard
  \/ ChainCheck
  \/ SetMinEdits
SpecChain == Init /\ [][NextChain]_vars

\* a scan: the engine is configured, then analyze runs to its end
NextScan ==
  \/ SetTargetPositions
  \/ SetMinEdits
  \/ Analyze
  \/ LoopIter
  \/ LoopExit
Spec == InitRNA /\ [][NextScan]_vars

\* a scan after exclude_positions was given a region list
NextExcludeScan ==
  \/ SetExcludePositions
  \/ Analyze
  \/ LoopIter
  \/ LoopExit
SpecExcludeScan == Init /\ [][NextExcludeScan]_vars

\* a scan of one contig under every setting of the strand parameters
NextStrandScan ==
  \/ UseStrandCorrection
  \/ AssignStrand
  \/ AssignStrandConfidence
  \/ AnalyzeContig
  \/ LoopIter
  \/ LoopExit
SpecStrandScan == Init /\ [][NextStrandScan]_vars
\* the same scan by a REDItools engine
SpecStrandColumns == InitRNA /\ [][NextStrandScan]_vars
\* enumerate_positions called on region lists
NextPositions == EnumeratePositions
InitPositions == InitState({"RNA"}, EnumeratePositionsCalls)
SpecPositions == InitPositions /\ [][NextPositions]_vars

\* result records built over positions of every depth, their properties read
NextResult == ReadResult
InitResult == InitState({"RNA"}, RTResultCalls)
SpecResult == InitResult /\ [][NextResult]_vars

\* the checks called one by one on an engine whose thresholds and splice
\* positions are set
NextPredicates ==
  \/ SetMinReadQuality
  \/ SetMinColumnLength
  \/ SetMinEdits
  \/ SetMinEditsPerNucleotide
  \/ SetSplicePositions
  \/ CallPredicate
SpecPredicates == InitRNA /\ [][NextPredicates]_vars

\* the edit-count checks called on engines with every pair of edit thresholds
NextEdits == CallPending
InitEdits == InitWith(EditEngines, EditCheckCalls)
SpecEdits == InitEdits /\ [][NextEdits]_vars

\* two engines of one program, each configured and scanned, in any
\* interleaving
NextTwoEngines ==
  \/ SetMinEdits
  \/ AnalyzeContig
  \/ LoopIter
  \/ LoopExit
  \/ SwitchEngine
InitTwoEngines ==
  InitAll({EngineInit("RNA")}, {Returned("__init__")},
          Fresh(EngineInitSecond("RNA")))
SpecTwoEngines == InitTwoEngines /\ [][NextTwoEngines]_vars

\* a scan by an engine left at its defaults
NextPlainScan ==
  \/ Analyze
  \/ LoopIter
  \/ LoopExit
SpecPlainScan == InitRNA /\ [][NextPlainScan]_vars

\* the consumer keeps pulling: the generator is resumed until it returns
FairSpec == Spec /\ WF_vars(LoopIter) /\ WF_vars(LoopExit)

(***************************************************************************)
(* Properties.                                                             *)
(***************************************************************************)
Yielded == { out[i] : i \in 1..Len(out) }
\* the 0-based position a record was built from
Position0(rec) == rec.position - 1

\* C1: no record is ever yielded for a position of the exclude set that
\* was given to exclude_positions, for the record's contig.
C1_ExcludedNeverYielded ==
  \A rec \in Yielded :
    Position0(rec) \notin DictGet(requested_exclude, rec.contig)

\* C2: with a non-empty target_positions every yielded record's 0-based
\* position is in the target set of the record's contig (so a contig with
\* no entry yields nothing); with target_positions unset or set to an empty
\* list no position is discarded by the allowlist.
C2_TargetAllowlist ==
  /\ Truthy(engine._target_positions) =>
       \A rec \in Yielded :
         Position0(rec) \in DictGet(engine._target_positions, rec.contig)
  /\ ~Truthy(engine._target_positions) =>
       log # "Not listed for inclusion - skipping"

\* a scan under an allowlist that has both yielded a record and discarded
\* a position the allowlist does not hold
C2_Witness ==
  /\ Truthy(engine._target_positions)
  /\ out # <<>>
  /\ log = "Not listed for inclusion - skipping"

\* C3: the positions of the records yielded by one scan are strictly
\* increasing.
C3_StrictlyIncreasing ==
  \A i \in 1..Len(out) : \A j \in 1..Len(out) :
    i < j => out[i].position < out[j].position

\* a scan that yielded two records on either side of a skip-ahead
C3_Witness ==
  /\ Len(out) >= 2
  /\ out[2].position > out[1].position + 1

\* C4: a scan that has stopped has stopped in DONE: it left the loop
\* because the source was exhausted and the window empty (or at the stop
\* bound), not because it raised.
C4_ScanEndsInDone == pc \in {"done", "aborted"} => pc = "done"

\* The loop itself always ends, in DONE or by raising (under FairSpec).
ScanStops == (pc = "loop") ~> (pc \in {"done", "aborted"})
\* After the loop has ended nothing is yielded and nothing is ingested.
NothingAfterEnd ==
  [][(pc \in {"done", "aborted"}) => (UNCHANGED <<out, total, reads, pc>>)]_vars

\* the checks whose threshold is at an active value
ActiveChecks(e) ==
  { f \in CheckNames :
      \/ f = "check_column_quality" /\ e._min_read_quality > 0
      \/ f = "check_column_min_length" /\ e._min_column_length > 1
      \/ f = "check_column_edit_frequency" /\ e._min_edits > 0
      \/ f = "check_column_min_edits" /\ e._min_edits_per_nucleotide > 0
      \/ f = "check_splice_positions" /\ Truthy(e._splice_positions)
      \/ f = "check_poly_positions" /\ Truthy(e._poly_positions) }

\* C5: after any sequence of threshold-setter calls on a fresh engine the
\* chain holds exactly the checks whose threshold is active, and the last
\* setter call did not fail.
C5_ChainReflectsThresholds ==
  /\ call.raised = NoError
  /\ engine.check_list = ActiveChecks(engine)

\* C6: check returns true iff every member of the chain returns keep=true
\* on the same (config, position_data, contig, position).
C6_CheckIsConjunction ==
  call.op = "check" =>
    /\ call.raised = NoError
    /\ call.result = "True" <=>
         \A f \in engine.check_list :
           ApplyCheck(f, engine, call.bases, call.contig, call.position) = "True"

\* C7: check on a chain with no members returns true for every input.
C7_EmptyChainPasses ==
  (call.op = "check" /\ engine.check_list = {}) =>
    (call.raised = NoError /\ call.result = "True")

\* check was called with a covered position on a chain that was filled and
\* emptied again
C7_Witness ==
  /\ call.op = "check"
  /\ engine.check_list = {}
  /\ Depth(call.bases) > 0
  /\ engine._min_edits > 0

\* C8: add of a present check and discard of an absent one leave the chain
\* as it was, neither fails, neither touches another member, and add
\* followed by discard of a check the chain did not hold restores the chain.
C8_AddStep ==
  call'.op = "add" =>
    LET f == call'.function
    IN  /\ call'.raised = NoError
        /\ f \in engine'.check_list
        /\ f \in engine.check_list => engine'.check_list = engine.check_list
        /\ \A g \in CheckNames \ {f} :
             g \in engine'.check_list <=> g \in engine.check_list
C8_DiscardStep ==
  call'.op = "discard" =>
    LET f == call'.function
    IN  /\ call'.raised = NoError
        /\ f \notin engine'.check_list
        /\ f \notin engine.check_list => engine'.check_list = engine.check_list
        /\ \A g \in CheckNames \ {f} :
             g \in engine'.check_list <=> g \in engine.check_list
C8_RoundTrip ==
  \A f \in CheckNames \ engine.check_list :
    RTDiscard(RTAdd(engine.check_list, f), f) = engine.check_list
C8_SetSemantics ==
  /\ [][C8_AddStep /\ C8_DiscardStep]_vars
  /\ []C8_RoundTrip

\* a discard of a check the (non-empty) chain does not hold has returned
C8_Witness ==
  /\ call.op = "discard"
  /\ call.function \notin engine.check_list
  /\ engine.check_list # {}

StrandParameters ==
  {"set_strand", "use_strand_correction", "strand", "strand_confidence_threshold"}

\* C9: on the DNA variant every attempt to set a strand parameter fails
\* with a configuration error and leaves the engine as it was.
C9_DnaStrandRefused ==
  [][(engine.kind = "DNA" /\ call'.op \in StrandParameters) =>
       (call'.raised = "ValueError" /\ engine' = engine)]_vars

\* C10: every record yielded by a scan of the DNA variant carries the
\* strand '*' and counts that were not complemented.
C10_DnaRecordsUnstranded ==
  engine.kind = "DNA" =>
    \A rec \in Yielded : rec.strand = "*" /\ rec.bases.ref = RefBase

\* the 0-based positions a region list names for a contig: start-1 for a
\* record (contig, start), start-1 .. end-1 for a record (contig, start, end)
NamedPositions(regions, c) ==
  { p \in 0..MaxListEnd :
      \E i \in 1..Len(regions) :
        /\ regions[i].contig = c
        /\ regions[i].len = 2 => p = regions[i].start - 1
        /\ regions[i].len = 3 =>
             (regions[i].start - 1 <= p /\ p <= regions[i].end - 1) }

\* C11: enumerate_positions gives, for every contig, exactly the union of
\* the 0-based positions its records name (start-1 for a two-field record,
\* start-1 .. end-1 for a three-field record), and a contig without a record
\* has no entry.
C11_EnumeratePositions ==
  call.op = "enumerate_positions" =>
    /\ call.raised = NoError
    /\ \A c \in Contigs :
         DictGet(call.result, c) = NamedPositions(call.regions, c)
    /\ DOMAIN call.result.map =
         { call.regions[i].contig : i \in 1..Len(call.regions) }

\* a list with a point record and a three-position range on the same contig
\* and no record for the other contig
C11_Witness ==
  /\ call.op = "enumerate_positions"
  /\ call.regions = << [contig |-> "chr1", start |-> 3, len |-> 2, end |-> 0],
                       [contig |-> "chr1", start |-> 1, len |-> 3, end |-> 2] >>
  /\ call.result = PyDict([c \in {"chr1"} |-> {0, 1, 2}])

\* C12: on a record whose position has depth 0, mean_quality is 0 and
\* edit_ratio has a value: neither access raises.
C12_DepthZeroProperties ==
  (call.op = "RTResult" /\ depth(call.record) = 0) =>
    /\ call.mean_quality.raised = NoError
    /\ call.mean_quality.num = 0
    /\ call.edit_ratio.raised = NoError

\* the non-reference symbols counted at least once at a position
VariantSymbols(bases) ==
  { sym \in Nucleotides \ {bases.ref} : BaseCount(bases, sym) >= 1 }

\* C13: every record yielded belongs to a position on whose aggregate
\* every active check returns true, whether the position lies before or
\* after the region's start: a position some active check rejects is never
\* emitted.
C13_YieldedPassedChain ==
  \A rec \in Yielded : \A f \in engine.check_list :
    ApplyCheck(f, engine, rec.bases, rec.contig, Position0(rec)) = "True"

\* under a stop bound nothing at or after it is yielded or ingested
StopBoundHolds ==
  region.stop # 0 =>
    /\ \A rec \in Yielded : Position0(rec) < region.stop
    /\ \A i \in 1..Len(ingested) : ingested[i].start < region.stop

\* C14: with a stop bound no record at a 0-based position >= stop is
\* yielded and no batch that starts at or after stop is ingested; with no
\* region or no stop bound the scan does not fail.
C14_StopBound ==
  /\ StopBoundHolds
  /\ region.stop = 0 => pc # "aborted"

\* C15: each of the six checks, called on any position (depth 0 included)
\* under any thresholds, returns a boolean and does not raise, on its keep
\* path and on its discard path.
C15_PredicatesTotal ==
  call.op = "predicate" =>
    (call.raised = NoError /\ call.result \in {"True", "False"})

\* C16: variants lists exactly the strings r+s for the non-reference
\* symbols s counted at least once, depth is the number of retained reads,
\* and edit_ratio is the fraction max_edits / (max_edits + REF count), with
\* max_edits the largest count of a variant symbol (0 if there is none).
C16_RecordFields ==
  call.op = "RTResult" =>
    LET bases == call.record.bases
        syms == VariantSymbols(bases)
        max_edits == IF syms = {} THEN 0
                     ELSE Max({ BaseCount(bases, sym) : sym \in syms })
    IN  /\ { call.variants[i] : i \in 1..Len(call.variants) } =
             { bases.ref \o sym : sym \in syms }
        /\ Len(call.variants) = Cardinality(syms)
        /\ call.depth = Len(bases.reads)
        /\ call.edit_ratio.num = max_edits
        /\ call.edit_ratio.den = max_edits + RefCount(bases)

\* the record over reads [A, A, G] with reference A: depth 3, REF count 2,
\* variants [AG], edit_ratio 1/3
C16_Witness ==
  /\ call.op = "RTResult"
  /\ [i \in 1..Len(call.record.bases.reads) |-> call.record.bases.reads[i].base]
       = <<"A", "A", "G">>
  /\ call.depth = 3
  /\ RefCount(call.record.bases) = 2
  /\ call.variants = <<"AG">>
  /\ call.edit_ratio = Quotient(1, 3)

\* the last iteration built a column for its position: _get_column ran
\* (get_strand, filter_bystrand, complement, RTChecks.check)
ColumnBuilt ==
  \/ log \in {"Bad column - skipping", "Yielding output"}
  \/ log = "raised" /\ call.raised = "TypeError"
\* the last iteration evicted its position
Popped ==
  \/ ColumnBuilt
  \/ log \in {"Listed exclusion - skipping", "Not listed for inclusion - skipping",
              "No reads - skipping"}

\* a position outside the allowlist is evicted and no column is built for it
NonTargetedSkipsColumn ==
  (Popped /\ NotTargeted(engine, contig, position)) =>
    (~ColumnBuilt /\ position \notin DOMAIN nucleotides)

\* C17: for a position of the exclude list that was given, or a position
\* outside the allowlist, the window entry is removed and no column is
\* built: strand resolution and the chain are not run for it.
C17_SkipsPrecedeColumn ==
  (/\ Popped
   /\ \/ position \in DictGet(requested_exclude, contig)
      \/ NotTargeted(engine, contig, position)) =>
    (~ColumnBuilt /\ position \notin DOMAIN nucleotides)

\* a step that is one iteration of the loop
Iteration == pc = "loop" /\ log' # "total reads"

C18_PointerStep ==
  Iteration =>
    IF is_empty(nucleotides)
      THEN position' = reads.start /\ contig' = reads.contig
      ELSE position' = position + 1 /\ contig' = contig

\* C18: an iteration that finds the window empty sets the pointer and the
\* contig to the start and contig of the pending batch; any other iteration
\* advances the pointer by exactly one and keeps the contig; the pointer
\* is never read before it was assigned.
C18_PointerMoves ==
  /\ [][C18_PointerStep]_vars
  /\ [](call.raised # "UnboundLocalError")

\* a scan that jumped from position 0 to position 2 over a gap and then
\* advanced by one to position 3 inside a read of length 2
C18_Witness ==
  /\ Len(out) = 3
  /\ Position0(out[1]) = 0
  /\ Position0(out[2]) = 2
  /\ Position0(out[3]) = 3
  /\ position = 3

RECURSIVE SumSizes(_, _)
SumSizes(batches, i) ==
  IF i > Len(batches) THEN 0 ELSE batches[i].size + SumSizes(batches, i + 1)

\* C19: when a position is evicted the pending batch, if any, starts
\* strictly after it, and every batch the source has produced is either
\* that pending batch or was ingested, once; so a scan that ends by
\* exhaustion has ingested every batch produced, and total is the number of
\* reads of the batches ingested.
C19_IngestedBeforePop ==
  /\ Popped => (reads.none \/ reads.start > position)
  /\ Len(ingested) + (IF reads.none THEN 0 ELSE 1) = pulled
  /\ \A i \in 1..Len(ingested) : \A j \in 1..Len(ingested) :
       i < j => ingested[i].start < ingested[j].start
  /\ total = SumSizes(ingested, 1)
  /\ (pc = "done" /\ log = "total reads") => Len(ingested) = pulled

\* a scan that ended by exhaustion after it ingested two batches, three
\* reads in all
C19_Witness ==
  /\ pc = "done"
  /\ log = "total reads"
  /\ Len(ingested) = 2
  /\ pulled = 2
  /\ total = 3

\* C20: within one scan every pop is at a position strictly above the
\* position of the pop before it, across skip-ahead jumps too.  (position
\* holds the position of the last pop once an iteration has evicted.)
C20_PopsIncrease ==
  [][(Iteration /\ Popped /\ Popped') => position' > position]_vars

\* two pops on either side of a skip-ahead: position 0, whose only read
\* fails the base quality, and then position 2
C20_Witness ==
  /\ Popped
  /\ Len(ingested) = 2
  /\ ingested[1].start = 0
  /\ ingested[2].start = 2
  /\ position = 2
  /\ Len(out) = 1

\* what pop returns in an iteration that ends at position p: the entry of
\* the window after the batch that starts at p, if any, was added
Evicted(p) ==
  pop_value(IF ~reads.none /\ reads.start = p
              THEN add_reads(nucleotides, engine.strand, reads)
              ELSE nucleotides, p)

C21_SentinelStep ==
  (Iteration /\ Popped' /\ Evicted(position').none) =>
    (~ColumnBuilt' /\ out' = out)

\* C21: an iteration whose pop returns the empty sentinel yields nothing
\* and builds no column (no strand resolution, no chain), and every record
\* yielded holds a position that was not the sentinel.
C21_SentinelDiscarded ==
  /\ [][C21_SentinelStep]_vars
  /\ [](\A rec \in Yielded : ~rec.bases.none)

\* after a record was yielded, a position whose only read fails the base
\* quality was evicted as the sentinel and skipped
C21_Witness ==
  /\ log = "No reads - skipping"
  /\ Len(out) = 1
  /\ Len(ingested) = 2
  /\ position \notin DOMAIN nucleotides

\* the strand a tally resolves to: the orientation most reads carry, when
\* its share reaches the threshold (in percent), otherwise '*'
Consensus(bases, threshold) ==
  LET n == Len(bases.reads)
      of(st) == Cardinality({ i \in 1..n : bases.reads[i].strand = st })
  IN  IF of("+") > of("-") /\ of("+") * 100 >= threshold * n THEN "+"
      ELSE IF of("-") > of("+") /\ of("-") * 100 >= threshold * n THEN "-"
      ELSE "*"

C22_StrandStep ==
  (Iteration /\ log' = "Yielding output") =>
    LET raw == Evicted(position')
        rec == out'[Len(out')]
        agree == { i \in 1..Len(raw.reads) : raw.reads[i].strand = rec.strand }
        flip(b) == IF rec.strand = "-" THEN Comp(b) ELSE b
    IN  /\ Len(out') = Len(out) + 1
        /\ rec.strand = Consensus(raw, engine.strand_confidence_threshold)
        /\ Depth(rec.bases) = (IF engine.usestrand_correction
                                 THEN Cardinality(agree) ELSE Depth(raw))
        /\ engine.usestrand_correction =>
             \A i \in 1..Depth(rec.bases) : rec.bases.reads[i].strand = rec.strand
        /\ rec.bases.ref = flip(raw.ref)
        /\ \A b \in Nucleotides :
             BaseCount(rec.bases, flip(b)) =
               Cardinality({ i \in 1..Len(raw.reads) :
                               /\ raw.reads[i].base = b
                               /\ engine.usestrand_correction => i \in agree })

\* C22: the record of a yielded position carries the strand resolved from
\* the evicted aggregate with the configured threshold; its aggregate is
\* the evicted one without the reads that disagree with that strand iff
\* strand correction is enabled, complemented iff the strand is '-'.
C22_StrandStepOrder == [][C22_StrandStep]_vars

\* a position covered by one '+' and two '-' reads, resolved to '-' under
\* strand correction: the '+' read is dropped and the rest complemented
C22_Witness ==
  /\ engine.usestrand_correction
  /\ log = "Yielding output"
  /\ Len(ingested) = 2
  /\ ingested[1].size = 1
  /\ ingested[2].size = 2
  /\ LET rec == out[Len(out)]
     IN  /\ Position0(rec) = ingested[2].start
         /\ rec.strand = "-"
         /\ Depth(rec.bases) = 2
         /\ rec.bases.ref = "T"
         /\ BaseCount(rec.bases, "C") = 2

\* C23: with splice positions configured, the splice-site check rejects a
\* position iff it is in the splice set of the contig it is called with; a
\* position that is only in another contig's set is kept.
C23_SpliceRejects ==
  (/\ call.op = "predicate"
   /\ call.function = "check_splice_positions"
   /\ Truthy(engine._splice_positions)) =>
    /\ call.raised = NoError
    /\ call.result = "False" <=>
         call.position \in DictGet(engine._splice_positions, call.contig)

\* C24: a call of the poly_positions setter returns, and after it the
\* homopolymer check is in the chain iff the list was non-empty; with
\* positions stored the check rejects exactly the positions in the set of
\* the contig it is called with.
C24_PolyRejects ==
  /\ call.op = "poly_positions" =>
       /\ call.raised = NoError
       /\ "check_poly_positions" \in engine.check_list
            <=> Truthy(engine._poly_positions)
  /\ Truthy(engine._poly_positions) =>
       \A c \in Contigs : \A p \in Positions :
         check_poly_positions(engine, NoBases, c, p) = "False"
           <=> p \in DictGet(engine._poly_positions, c)

\* C25: the per-nucleotide check rejects iff some non-reference nucleotide
\* has an edit count n with 0 < n < min_edits_per_nucleotide (a nucleotide
\* without edits never rejects), and the total-edits check rejects iff
\* depth minus REF count is below min_edits.
C25_EditChecks ==
  call.op = "predicate" =>
    LET bases == call.bases
        edits(sym) ==
          Cardinality({ i \in 1..Len(bases.reads) : bases.reads[i].base = sym })
    IN  /\ call.raised = NoError
        /\ call.function = "check_column_min_edits" =>
             (call.result = "False" <=>
                \E sym \in Nucleotides \ {bases.ref} :
                  0 < edits(sym) /\ edits(sym) < engine._min_edits_per_nucleotide)
        /\ call.function = "check_column_edit_frequency" =>
             (call.result = "False" <=>
                Len(bases.reads) - edits(bases.ref) < engine._min_edits)

\* the per-nucleotide check with threshold 2 rejected a position with one
\* G edit and two C edits (and no T edit)
C25_Witness ==
  /\ call.op = "predicate"
  /\ call.function = "check_column_min_edits"
  /\ call.result = "False"
  /\ engine._min_edits_per_nucleotide = 2
  /\ BaseCount(call.bases, "G") = 1
  /\ BaseCount(call.bases, "C") = 2

C26_PullStep ==
  (reads' # reads \/ pulled' # pulled) =>
    \/ pc = "config" /\ pc' = "loop"
    \/ /\ Iteration
       /\ ~reads.none
       /\ ingested' = Append(ingested, [start |-> reads.start,
                                         size |-> Len(reads.reads)])
       /\ pulled' \in {pulled, pulled + 1}

\* C26: the number of batches pulled never exceeds the number ingested
\* plus one, and the pending batch changes only when the scan starts or in
\* the iteration that ingests it.
C26_LazyLookahead ==
  /\ [][C26_PullStep]_vars
  /\ [](pulled <= Len(ingested) + 1)

\* mid-scan: one batch ingested, its read still in the window, and the next
\* batch pulled and pending
C26_Witness ==
  /\ pc = "loop"
  /\ Popped
  /\ Len(ingested) = 1
  /\ pulled = 2
  /\ ~reads.none
  /\ ~is_empty(nucleotides)

\* a step of the running engine (a setter call or a scan step) leaves the
\* other instance as it was; a switch exchanges the two and nothing else
C27_FrameStep ==
  /\ engine'.id = engine.id => other' = other
  /\ engine'.id # engine.id => (other' = Running /\ Running' = other)

\* what a scan shows when nothing but its own calls touched its state: the
\* pointer was assigned before it was read, total counts the reads of its
\* own batches, and each record lies at or after the start of a batch it
\* ingested and holds no more reads than those batches gave
LoneScan(inst) ==
  /\ inst.call.raised # "UnboundLocalError"
  /\ inst.total = SumSizes(inst.ingested, 1)
  /\ \A i \in 1..Len(inst.out) :
       /\ \E j \in 1..Len(inst.ingested) :
            inst.ingested[j].start <= Position0(inst.out[i])
       /\ Depth(inst.out[i].bases) <= inst.total

\* C27: no step on one engine changes the other engine's configuration,
\* chain or scan, and in every interleaving of two scans each scan is the
\* scan it would be alone.
C27_IndependentEngines ==
  /\ [][C27_FrameStep]_vars
  /\ [](LoneScan(Running) /\ LoneScan(other))

\* the second engine, given min_edits = 1, is in a scan of its own while
\* the first, still without a check, waits inside a scan that has yielded
C27_Witness ==
  /\ engine.id = 2
  /\ engine.check_list = {"check_column_edit_frequency"}
  /\ pc = "loop"
  /\ Len(ingested) = 1
  /\ other.engine.check_list = {}
  /\ other.pc = "loop"
  /\ Len(other.out) = 1

=============================================================================
